---- MODULE Spec2Model ----
(***************************************************************************)
(* Model of the login-gated dashboard of weather_dash: src/app.py (the     *)
(* Streamlit script, re-executed top to bottom on every user interaction)  *)
(* and the role helpers of src/auth.py.                                    *)
(*                                                                         *)
(* src/app.py holds the statements of two revisions of the script side by  *)
(* side. The model follows the text: every statement runs in the order in  *)
(* which it stands in the file, a name bound twice keeps its last binding, *)
(* a dict literal with a repeated key keeps the last value. The header     *)
(* `def login()` (line 81) has lost its body to the file's layout: the     *)
(* body that returns login's triple stands at lines 157-177, under the     *)
(* header of append_login_event, so both names run those lines.            *)
(*                                                                         *)
(* Python values are strings here: None is the string None, the booleans   *)
(* True and False inside events are "True" and "False". A dict is a set of *)
(* <<key, value>> pairs with distinct keys.                                *)
(***************************************************************************)
EXTENDS Integers, Sequences, FiniteSets, TLC

VARIABLES
    secrets,        \* st.secrets: the configuration, fixed for the process
    pc,             \* position of the current script run
    trigger,        \* the widget interaction that caused the current run
    credentials,    \* module global `credentials` (app.py:74, app.py:116)
    credState,      \* which statement bound `credentials` last
    authenticator,  \* module global `authenticator` is a truthy object
    name,           \* app.py:141
    display_name,   \* app.py:274
    auth_status,    \* app.py:141, app.py:274
    user_key,       \* app.py:141, app.py:274
    fb_user,        \* value of the fallback form's Username input (app.py:167)
    fb_pass,        \* value of the fallback form's Password input (app.py:168)
    loginPath,      \* which branch of login() produced the triple
    stSession,      \* the authentication widget's own session (cookie)
    overrideText,   \* widget state of "Override station ID" (app.py:480)
    testText,       \* widget state of "Test DB user (admin only)" (app.py:514)
    event,          \* module global `event` (app.py:314)
    pending,        \* events of the current section still to be logged
    phase,          \* section whose events are being logged
    fileLog,        \* lines of the audit file LOG_PATH
    db,             \* the datastore and the driver's use
    calls,          \* sink calls of the current run, in order
    ui,             \* what the current run rendered
    warnings,       \* sidebar warnings of the current run
    runs,           \* script runs so far
    faults,         \* sink failures injected so far
    roleQuery,      \* last role question asked of src/auth.py and app.py
    writers,        \* sessions inside append_jsonl at the same time
    tiles,          \* src/tile_manifest.py: INTERNAL_MODE and TILES
    rps,            \* src/tiles/rps_app.py: st.session_state of one session
    board           \* src/tiles/rps_app.py: the leaderboard file and its savers

vars == <<secrets, pc, trigger, credentials, credState, authenticator, name,
          display_name, auth_status, user_key, fb_user, fb_pass, loginPath,
          stSession, overrideText, testText, event, pending, phase, fileLog,
          db, calls, ui, warnings, runs, faults, roleQuery, writers, tiles,
          rps, board>>

\* The state of the programs beside the dashboard script.
others == <<writers, tiles, rps, board>>

-----------------------------------------------------------------------------
(* Bounds of the model.                                                    *)

MaxRuns == 3
MaxFaults == 1

-----------------------------------------------------------------------------
(* Python values.                                                          *)

None == "None"

\* Python truthiness of a str-or-None value.
Truthy(v) == v # None /\ v # ""

\* str(bool)
PyBool(b) == IF b THEN "True" ELSE "False"

\* Input alphabets.
TypedUsers == {"", "alice", "bob", "mallory"}
Passwords == {"", "p1", "p2"}

\* app.py:91-94
REQUIRED_SECRETS == {"admin_username", "admin_email", "admin_password",
                     "viewer_username", "viewer_email", "viewer_password"}

\* The configurations st.secrets can hold: a key that is absent reads None.
SecretsSpace ==
    [admin_username : {None, "", "alice"},
     admin_email : {None, "a@x"},
     admin_password : {None, "p1"},
     viewer_username : {None, "alice", "bob"},
     viewer_email : {None, "v@x"},
     viewer_password : {None, "p2"},
     db_user : {None, "dbu"},
     db_pass : {None, "dbp"},
     db_name : {None, "dbn"},
     db_port : {None, "5432"}]

\* app.py:32-37 get_secret: st has the attribute `secrets`, so the value is
\* st.secrets.get(key) and the default is never used.
get_secret(key, default) == secrets[key]

ADMIN_USERNAME == get_secret("admin_username", None)
ADMIN_EMAIL == get_secret("admin_email", None)
ADMIN_PASSWORD == get_secret("admin_password", None)
VIEWER_USERNAME == get_secret("viewer_username", None)
VIEWER_EMAIL == get_secret("viewer_email", None)
VIEWER_PASSWORD == get_secret("viewer_password", None)
DB_USER == get_secret("db_user", "")
DB_PASS == get_secret("db_pass", "")
DB_NAME == get_secret("db_name", "")

\* app.py:103-113: st.secrets.get(key[, ""]).
StGet(key, default) == IF secrets[key] = None THEN default ELSE secrets[key]
admin_username == StGet("admin_username", None)
admin_email == StGet("admin_email", None)
admin_password == StGet("admin_password", None)
viewer_username == StGet("viewer_username", None)
viewer_email == StGet("viewer_email", None)
viewer_password == StGet("viewer_password", None)
db_user == StGet("db_user", "")
db_pass == StGet("db_pass", "")

\* app.py:55
ROLE_LABELS == [admin |-> "Admin", viewer |-> "Viewer"]

Principal(email, label, password) ==
    [email |-> email, name |-> label, password |-> password]

EmptyTable == [k \in {} |-> Principal(None, None, None)]

\* app.py:66-72: an entry is added only when its three fields are truthy;
\* the viewer's assignment comes second and wins a shared key.
build_credentials ==
    LET adminOk == Truthy(ADMIN_USERNAME) /\ Truthy(ADMIN_EMAIL) /\ Truthy(ADMIN_PASSWORD)
        viewerOk == Truthy(VIEWER_USERNAME) /\ Truthy(VIEWER_EMAIL) /\ Truthy(VIEWER_PASSWORD)
        keys == (IF adminOk THEN {ADMIN_USERNAME} ELSE {})
                \cup (IF viewerOk THEN {VIEWER_USERNAME} ELSE {})
    IN  [k \in keys |->
            IF viewerOk /\ k = VIEWER_USERNAME
            THEN Principal(VIEWER_EMAIL, ROLE_LABELS["viewer"], VIEWER_PASSWORD)
            ELSE Principal(ADMIN_EMAIL, ROLE_LABELS["admin"], ADMIN_PASSWORD)]

\* app.py:116-129: the dict literal admits both entries as they are; the
\* viewer's key comes second and wins a shared key.
CredentialsLiteral ==
    [k \in {admin_username, viewer_username} |->
        IF k = viewer_username
        THEN Principal(viewer_email, "Viewer", viewer_password)
        ELSE Principal(admin_email, "Admin", admin_password)]

\* The check with the viewer's keys forgotten.
missing_AdminKeysOnly ==
    {k \in {"admin_username", "admin_email", "admin_password"} : secrets[k] = None}

\* app.py:97
missing == {k \in REQUIRED_SECRETS : secrets[k] = None}

-----------------------------------------------------------------------------
(* Roles.                                                                  *)

\* The helper with a third answer for an absent identity.
get_user_role_GuestForNone(username) ==
    IF username \in {"colin", "halley"} THEN "viewer"
    ELSE IF username = None THEN "guest" ELSE "admin"

\* auth.py:66-68
get_user_role(username) ==
    IF username \in {"colin", "halley"} THEN "viewer" ELSE "admin"

\* auth.py:70-71
auth_is_viewer(username) == get_user_role(username) = "viewer"

\* auth.py:73-74
is_admin(username) == get_user_role(username) = "admin"

\* app.py:270-271 (and app.py:144-145, which reads the same secret)
is_viewer(username_key) == username_key = VIEWER_USERNAME

-----------------------------------------------------------------------------
(* Events and the file sink.                                               *)

\* Keys and value of a dict held as a set of <<key, value>> pairs.
Keys(d) == {kv[1] : kv \in d}
Get(d, k) == IF k \in Keys(d) THEN (CHOOSE kv \in d : kv[1] = k)[2] ELSE None

\* json.dumps(x, default=str) of one value: None is written null, the
\* booleans true and false, a string as itself.
JsonValue(v) ==
    IF v = None THEN "null"
    ELSE IF v = "True" THEN "true"
    ELSE IF v = "False" THEN "false"
    ELSE v

\* app.py:194, app.py:197: one line of the file, the object's members.
json_dumps(d) == {<<kv[1], JsonValue(kv[2])>> : kv \in d}

\* app.py:192: the keys removed before the first write.
RedactedKeys == {"password", "db_pass", "admin_password"}

\* app.py:192
safe(record) == {kv \in record : kv[1] \notin RedactedKeys}

\* The file opened for writing from its start.
AppendLine_Truncates(log, line) == <<line>>

\* app.py:196-197, app.py:198-199: open(path, "a") and one write; in append
\* mode the line lands behind whatever the file holds at that moment.
AppendLine(log, line) == Append(log, line)

\* What the two writes of app.py:195-199 leave in the file. Both go to the
\* same file (path is LOG_PATH at every call). outcome: "ok", "mkdir_failed"
\* (os.makedirs raised, app.py:184-191, ignored), "open1_failed" (app.py:196
\* raised: nothing is written), "open2_failed" (app.py:198 raised after the
\* first line was written).
FileAfter(log, record, ev, outcome) ==
    CASE outcome \in {"ok", "mkdir_failed"} ->
            AppendLine(AppendLine(log, json_dumps(safe(record))), json_dumps(ev))
      [] outcome = "open2_failed" -> AppendLine(log, json_dumps(safe(record)))
      [] OTHER -> log

\* app.py:200-207: the warnings shown for one failed write; shown is how many
\* of the two st.sidebar.warning calls returned before one raised.
WarningsAfter(n, outcome, shown) ==
    IF outcome \in {"open1_failed", "open2_failed"} THEN n + shown ELSE n

FileOutcomes == {"ok", "mkdir_failed", "open1_failed", "open2_failed"}
FileFailures == FileOutcomes \ {"ok"}

-----------------------------------------------------------------------------
(* The datastore sink.                                                     *)

\* app.py:211 with the return of app.py:218
DbConfigured == Truthy(DB_USER) /\ Truthy(DB_PASS) /\ Truthy(DB_NAME)

\* app.py:217-218
DbSecretsPresent == Truthy(db_user) /\ Truthy(db_pass)

\* The guard with the database name left out.
DbSkips_NoNameCheck == ~(Truthy(db_user) /\ Truthy(db_pass))

\* try_db_log returns before the try block.
DbSkips == ~DbConfigured \/ ~DbSecretsPresent

\* app.py:248-260: the columns of one inserted row.
DbRow(table, ev) ==
    [table |-> table, username |-> Get(ev, "username"),
     display_name |-> Get(ev, "display_name"),
     is_viewer |-> Get(ev, "is_viewer")]

DbOutcomes == {"ok", "import_failed", "connect_failed", "sql_failed"}
DbFailures == DbOutcomes \ {"ok"}

\* app.py:219-267: the datastore after one call that passed the guards.
\* Every failure is caught at app.py:264 and leaves what was done before it.
DbAfter(d, ev, outcome) ==
    LET imported == [d EXCEPT !.imported = TRUE]
        connected == [imported EXCEPT !.connects = TRUE]
        created == [connected EXCEPT !.tables =
                      @ \cup {"dashboard_user_login_events", "user_login_events"}]
        inserted == [created EXCEPT !.rows = @ \o
                      <<DbRow("dashboard_user_login_events", ev),
                        DbRow("user_login_events", ev)>>]
    IN  CASE outcome = "import_failed" -> d
          [] outcome = "connect_failed" -> imported
          [] outcome = "sql_failed" -> created
          [] OTHER -> inserted

\* app.py:209-267
try_db_log(d, ev, outcome) == IF DbSkips THEN d ELSE DbAfter(d, ev, outcome)

-----------------------------------------------------------------------------
(* Authentication.                                                         *)

Triple(n, s, k) == [name |-> n, status |-> s, key |-> k]

\* The check with the password comparison dropped.
FallbackCheck_UsernameOnly(table, u, p) ==
    IF u \in DOMAIN table
    THEN [name |-> table[u].name, status |-> "True", key |-> u]
    ELSE [name |-> None, status |-> "False", key |-> None]

\* The check that hands back the key of a known user on a wrong password.
FallbackCheck_LeaksUser(table, u, p) ==
    IF \E k \in DOMAIN table : u = k /\ p = table[k].password
    THEN [name |-> table[u].name, status |-> "True", key |-> u]
    ELSE [name |-> None, status |-> "False",
          key |-> IF u \in DOMAIN table THEN u ELSE None]

\* app.py:173-177: the fallback form's check of the typed pair against the
\* table; keys are distinct, so at most one entry can match.
FallbackCheck(table, u, p) ==
    IF \E k \in DOMAIN table : u = k /\ p = table[k].password
    THEN Triple(table[u].name, "True", u)
    ELSE Triple(None, "False", None)

\* The authentication widget (streamlit_authenticator), called at app.py:141
\* and app.py:159: it keeps its own session and returns
\* (name, authentication_status, username) from it.
Anonymous == [state |-> "anonymous", user |-> None]
Rejected == [state |-> "rejected", user |-> None]
Signed(k) == [state |-> "signed", user |-> k]

WidgetTriple(sess, table) ==
    CASE sess.state = "signed" /\ sess.user \in DOMAIN table ->
            Triple(table[sess.user].name, "True", sess.user)
      [] sess.state = "rejected" -> Triple(None, "False", None)
      [] OTHER -> Triple(None, None, None)

\* The sessions a submitted widget form can end in: the widget accepts only
\* an entry of the table it was built with.
WidgetSubmit(table) == {Signed(k) : k \in DOMAIN table} \cup {Rejected}

-----------------------------------------------------------------------------
(* Events of the main flow.                                                *)

\* app.py:314-323: the repeated key "display_name" keeps `name`.
LoginEvent(n, k) ==
    {<<"username", k>>, <<"display_name", n>>, <<"login_time", "utc">>,
     <<"station", "KDTW">>, <<"selected_date", "2025-10-27">>,
     <<"is_viewer", PyBool(is_viewer(k))>>}

\* app.py:468, 471-476, 485-493, 503, 505-510, 519-527
AdminEvent(k, n, action, extra) ==
    {<<"username", k>>, <<"display_name", n>>, <<"action", action>>,
     <<"time", "utc">>} \cup extra

AdminActions == {"run_ingest", "override_station", "run_backfill", "secret_test"}

\* One logging site: first is handed to append_jsonl, second to
\* append_login_event and try_db_log.
Site(first, second) == [first |-> first, second |-> second]

\* app.py:463-530: the events of the admin controls, in the order of the
\* text. A button is True only in the run its click caused; a text input
\* holds its widget state.
AdminSites(k, dn, n, trig, override_station, secret_test) ==
    (IF trig = "run_ingest"
        THEN <<Site(AdminEvent(k, dn, "run_ingest", {}),
                    AdminEvent(k, n, "run_ingest", {}))>>
        ELSE <<>>)
    \o (IF override_station # ""
        THEN <<Site(AdminEvent(k, n, "override_station",
                               {<<"override_value", override_station>>}),
                    AdminEvent(k, n, "override_station",
                               {<<"override_value", override_station>>}))>>
        ELSE <<>>)
    \o (IF trig = "run_backfill"
        THEN <<Site(AdminEvent(k, dn, "run_backfill", {}),
                    AdminEvent(k, n, "run_backfill", {}))>>
        ELSE <<>>)
    \o (IF secret_test # ""
        THEN <<Site(AdminEvent(k, n, "secret_test", {<<"value_present", "True">>}),
                    AdminEvent(k, n, "secret_test", {<<"value_present", "True">>}))>>
        ELSE <<>>)

\* The controls rendered for every identity.
AdminBranch_Always(k) == TRUE

\* app.py:458: the branch that renders the admin controls.
AdminBranch(k) == ~is_viewer(k)

-----------------------------------------------------------------------------
(* The script run.                                                         *)

NoDb == [imported |-> FALSE, connects |-> FALSE, tables |-> {}, rows |-> <<>>]
NoQuery == [module |-> "none", who |-> None, known |-> FALSE,
            viewer |-> FALSE, admin |-> FALSE]

\* What a fresh run starts from: the module globals are unbound again.
RunReset ==
    /\ credentials' = EmptyTable
    /\ credState' = "unbound"
    /\ authenticator' = FALSE
    /\ name' = None
    /\ display_name' = None
    /\ auth_status' = None
    /\ user_key' = None
    /\ fb_user' = None
    /\ fb_pass' = None
    /\ loginPath' = "none"
    /\ event' = {}
    /\ pending' = <<>>
    /\ phase' = "none"
    /\ calls' = <<>>
    /\ ui' = {}
    /\ warnings' = 0

\* No session is inside append_jsonl.
NoWriters == <<>>

\* src/tile_manifest.py before its import.
NotImported == [imported |-> FALSE, INTERNAL_MODE |-> None, TILES |-> <<>>]

\* rps_app.py:20-25: st.session_state of a session's first run; clock counts
\* the rounds the session has recorded and stands for time.time(), click is
\* the interaction that caused the last run, runs the runs followed so far.
NewSession ==
    [player |-> [name |-> "Guest", wins |-> 0, losses |-> 0, ties |-> 0,
                 games |-> 0],
     last |-> [player_choice |-> None, cpu_choice |-> None, result |-> None],
     history |-> <<>>,
     clock |-> 0,
     click |-> "none",
     runs |-> 0]

\* rps_app.py:10: LOCAL_LEADERBOARD_FILE does not exist and no session is
\* saving; ticks counts the entries built so far and stands for time.time().
NoBoard == [file |-> <<>>, savers |-> <<>>, ticks |-> 0]

\* The dashboard script at the start of its first run.
InitDashboard ==
    /\ secrets \in SecretsSpace
    /\ pc = "load"
    /\ trigger = "rerun"
    /\ credentials = EmptyTable
    /\ credState = "unbound"
    /\ authenticator = FALSE
    /\ name = None
    /\ display_name = None
    /\ auth_status = None
    /\ user_key = None
    /\ fb_user = None
    /\ fb_pass = None
    /\ loginPath = "none"
    /\ stSession = Anonymous
    /\ overrideText = ""
    /\ testText = ""
    /\ event = {}
    /\ pending = <<>>
    /\ phase = "none"
    /\ fileLog = <<>>
    /\ db = NoDb
    /\ calls = <<>>
    /\ ui = {}
    /\ warnings = 0
    /\ runs = 1
    /\ faults = 0
    /\ roleQuery = NoQuery

Init ==
    /\ InitDashboard
    /\ writers = NoWriters
    /\ tiles = NotImported
    /\ rps = NewSession
    /\ board = NoBoard

\* The interactions the page of the finished run offers; any run can also
\* be caused by an interaction the model does not follow ("rerun").
Offered(shown) ==
    {"rerun"}
    \cup (IF "fallback_form" \in shown THEN {"signin"} ELSE {})
    \cup (IF "widget_form" \in shown THEN {"widget_submit"} ELSE {})
    \cup (IF "logout" \in shown THEN {"logout"} ELSE {})
    \cup (IF "admin_controls" \in shown
          THEN {"run_ingest", "queue_override", "run_backfill", "record_test",
                "edit_override", "edit_test"}
          ELSE {})

OverrideTexts == {"", "KORD"}
TestTexts == {"", "dbu"}

\* A user interaction re-executes the script from the top. Widget state of
\* a text input survives only while the input is rendered.
NewRun ==
    /\ pc \in {"done", "stopped", "crashed"}
    /\ runs < MaxRuns
    /\ \E t \in Offered(ui) :
        /\ trigger' = t
        /\ overrideText' \in
              IF t = "edit_override" THEN OverrideTexts
              ELSE IF "admin_controls" \in ui THEN {overrideText} ELSE {""}
        /\ testText' \in
              IF t = "edit_test" THEN TestTexts
              ELSE IF "admin_controls" \in ui THEN {testText} ELSE {""}
    /\ pc' = "load"
    /\ runs' = runs + 1
    /\ RunReset
    /\ UNCHANGED others
    /\ UNCHANGED <<secrets, stSession, fileLog, db, faults, roleQuery>>

\* app.py:39-52: DB_PORT = int(get_secret("db_port", "5432")) raises
\* TypeError on None.
LoadSecrets ==
    /\ pc = "load"
    /\ pc' = IF get_secret("db_port", "5432") = None THEN "crashed" ELSE "build"
    /\ UNCHANGED others
    /\ UNCHANGED <<secrets, trigger, credentials, credState, authenticator, name,
                   display_name, auth_status, user_key, fb_user, fb_pass,
                   loginPath, stSession, overrideText, testText, event, pending,
                   phase, fileLog, db, calls, ui, warnings, runs, faults,
                   roleQuery>>

\* app.py:74-79
BuildCredentials ==
    /\ pc = "build"
    /\ credentials' = build_credentials
    /\ credState' = "build_credentials"
    /\ authenticator' = (DOMAIN build_credentials # {})
    /\ pc' = "check"
    /\ UNCHANGED others
    /\ UNCHANGED <<secrets, trigger, name, display_name, auth_status, user_key,
                   fb_user, fb_pass, loginPath, stSession, overrideText,
                   testText, event, pending, phase, fileLog, db, calls, ui,
                   warnings, runs, faults, roleQuery>>

\* app.py:96-100
CheckRequiredSecrets ==
    /\ pc = "check"
    /\ IF missing # {}
       THEN /\ ui' = ui \cup {"secrets_missing"}
            /\ pc' = "stopped"
       ELSE /\ ui' = ui
            /\ pc' = "setup"
    /\ UNCHANGED others
    /\ UNCHANGED <<secrets, trigger, credentials, credState, authenticator, name,
                   display_name, auth_status, user_key, fb_user, fb_pass,
                   loginPath, stSession, overrideText, testText, event, pending,
                   phase, fileLog, db, calls, warnings, runs, faults, roleQuery>>

\* app.py:102-141: the table of the dict literal, the authenticator built on
\* it and the widget's login call, which handles a submitted form.
SetupAuthenticator ==
    /\ pc = "setup"
    /\ credentials' = CredentialsLiteral
    /\ credState' = "literal"
    /\ authenticator' = TRUE
    /\ stSession' \in IF trigger = "widget_submit"
                      THEN WidgetSubmit(CredentialsLiteral)
                      ELSE {stSession}
    /\ LET t == WidgetTriple(stSession', CredentialsLiteral)
       IN  /\ name' = t.name
           /\ auth_status' = t.status
           /\ user_key' = t.key
           /\ ui' = IF t.status = "True" THEN ui ELSE ui \cup {"widget_form"}
    /\ pc' = "login"
    /\ UNCHANGED others
    /\ UNCHANGED <<secrets, trigger, display_name, fb_user, fb_pass, loginPath,
                   overrideText, testText, event, pending, phase, fileLog, db,
                   calls, warnings, runs, faults, roleQuery>>

\* app.py:274 with app.py:157-177: the widget's triple when the call at
\* app.py:159 returns, else the fallback form.
Login ==
    /\ pc = "login"
    /\ \/ /\ authenticator
          /\ LET t == WidgetTriple(stSession, credentials)
             IN  /\ display_name' = t.name
                 /\ auth_status' = t.status
                 /\ user_key' = t.key
          /\ loginPath' = "widget"
          /\ UNCHANGED <<fb_user, fb_pass, ui>>
       \/ /\ trigger # "signin"
          /\ display_name' = None
          /\ auth_status' = None
          /\ user_key' = None
          /\ loginPath' = "fallback_idle"
          /\ ui' = ui \cup {"fallback_form"}
          /\ UNCHANGED <<fb_user, fb_pass>>
       \/ /\ trigger = "signin"
          /\ \E u \in TypedUsers, p \in Passwords :
                /\ fb_user' = u
                /\ fb_pass' = p
                /\ LET t == FallbackCheck(credentials, u, p)
                   IN  /\ display_name' = t.name
                       /\ auth_status' = t.status
                       /\ user_key' = t.key
          /\ loginPath' = "fallback"
          /\ ui' = ui \cup {"fallback_form"}
    /\ pc' = "branch"
    /\ UNCHANGED others
    /\ UNCHANGED <<secrets, trigger, credentials, credState, authenticator, name,
                   stSession, overrideText, testText, event, pending, phase,
                   fileLog, db, calls, warnings, runs, faults, roleQuery>>

\* The logout control that ignores its click.
logout_KeepsSession(sess, trig) == sess

\* app.py:288-293 authenticator.logout("Logout", "sidebar"): the widget
\* ends its session in the run its button's click caused.
logout(sess, trig) == IF trig = "logout" THEN Anonymous ELSE sess

\* app.py:277-323: the authenticated session's header, the logout control
\* and the login event.
SessionBranch ==
    /\ pc = "branch"
    /\ auth_status = "True"
    /\ stSession' = logout(stSession, trigger)
    /\ event' = LoginEvent(name, user_key)
    /\ pending' = <<Site(LoginEvent(name, user_key), LoginEvent(name, user_key))>>
    /\ phase' = "login"
    /\ ui' = ui \cup {"session_info", "logout", "dashboard"}
    /\ pc' = "append_jsonl"
    /\ UNCHANGED others
    /\ UNCHANGED <<secrets, trigger, credentials, credState, authenticator, name,
                   display_name, auth_status, user_key, fb_user, fb_pass,
                   loginPath, overrideText, testText, fileLog, db, calls,
                   warnings, runs, faults, roleQuery>>

\* app.py:540-541
InvalidBranch ==
    /\ pc = "branch"
    /\ auth_status = "False"
    /\ ui' = ui \cup {"Invalid credentials"}
    /\ pc' = "done"
    /\ UNCHANGED others
    /\ UNCHANGED <<secrets, trigger, credentials, credState, authenticator, name,
                   display_name, auth_status, user_key, fb_user, fb_pass,
                   loginPath, stSession, overrideText, testText, event, pending,
                   phase, fileLog, db, calls, warnings, runs, faults, roleQuery>>

\* app.py:542-544
AnonymousBranch ==
    /\ pc = "branch"
    /\ auth_status = None
    /\ ui' = ui \cup {"Please log in"}
    /\ pc' = "done"
    /\ UNCHANGED others
    /\ UNCHANGED <<secrets, trigger, credentials, credState, authenticator, name,
                   display_name, auth_status, user_key, fb_user, fb_pass,
                   loginPath, stSession, overrideText, testText, event, pending,
                   phase, fileLog, db, calls, warnings, runs, faults, roleQuery>>

-----------------------------------------------------------------------------
(* Logging one event: app.py:324-328 for the login event, and             *)
(* app.py:469-478, 494-496, 504-512, 528-530 for the admin events.         *)

Call(sink, ev, outcome) == [sink |-> sink, ev |-> ev, outcome |-> outcome]

\* A sink may fail while the fault budget lasts.
MayFail == faults < MaxFaults

\* The writes with no handler around them.
AppendJsonlRaises_Unhandled(outcome, ev) ==
    ev = {} \/ outcome \in {"open1_failed", "open2_failed"}

\* Whether append_jsonl raises to its caller. Directory creation and both
\* writes run inside try blocks whose handlers swallow every Exception
\* (app.py:184-191, app.py:195-207); json.dumps(event, ...) at app.py:194
\* stands outside them and raises NameError while `event` is unbound.
AppendJsonlRaises(outcome, ev) == ev = {}

\* Whether try_db_log raises to its caller: the handler of app.py:264-267
\* swallows every Exception of the try block.
TryDbLogRaises(outcome) == FALSE

\* The datastore call made only after a file write that succeeded.
DbLogFollows_OnlyOnSuccess(fileOutcome) ==
    fileOutcome \notin {"open1_failed", "open2_failed"}

\* app.py:324-328: whether try_db_log is called once the file sink has
\* returned with fileOutcome. The call is unconditional.
DbLogFollows(fileOutcome) == TRUE

\* Position after the logging site at the head of the queue is finished.
AfterSite(queue, section) ==
    IF Tail(queue) # <<>> THEN "append_jsonl"
    ELSE IF section = "login" THEN "gate" ELSE "done"

\* app.py:182-207 append_jsonl(LOG_PATH, record): `event` in its body is the
\* module global bound at app.py:314.
AppendJsonl ==
    /\ pc = "append_jsonl"
    /\ pending # <<>>
    /\ \E outcome \in FileOutcomes, shown \in 0..2 :
        /\ outcome \in FileFailures => MayFail
        /\ outcome \notin {"open1_failed", "open2_failed"} => shown = 2
        /\ fileLog' = FileAfter(fileLog, Head(pending).first, event, outcome)
        /\ warnings' = WarningsAfter(warnings, outcome, shown)
        /\ calls' = Append(calls, Call("file", Head(pending).first, outcome))
        /\ faults' = IF outcome \in FileFailures THEN faults + 1 ELSE faults
        /\ pc' = IF AppendJsonlRaises(outcome, event) THEN "crashed"
                 ELSE "append_login_event"
    /\ UNCHANGED others
    /\ UNCHANGED <<secrets, trigger, credentials, credState, authenticator, name,
                   display_name, auth_status, user_key, fb_user, fb_pass,
                   loginPath, stSession, overrideText, testText, event, pending,
                   phase, db, ui, runs, roleQuery>>

\* app.py:150-177 append_login_event(event): the body under this header is
\* the login body; its triple is dropped by the caller, and nothing is
\* written. The widget call of app.py:159 ends as it did in login() earlier
\* in the run, so the fallback form is rendered again when it raised then.
AppendLoginEvent ==
    /\ pc = "append_login_event"
    /\ pending # <<>>
    /\ ui' = IF loginPath = "widget" THEN ui ELSE ui \cup {"fallback_form"}
    /\ IF DbLogFollows(calls[Len(calls)].outcome)
       THEN /\ pc' = "try_db_log"
            /\ pending' = pending
       ELSE /\ pc' = AfterSite(pending, phase)
            /\ pending' = Tail(pending)
    /\ UNCHANGED others
    /\ UNCHANGED <<secrets, trigger, credentials, credState, authenticator, name,
                   display_name, auth_status, user_key, fb_user, fb_pass,
                   loginPath, stSession, overrideText, testText, event,
                   phase, fileLog, db, calls, warnings, runs, faults, roleQuery>>

\* app.py:209-267 try_db_log(event)
TryDbLog ==
    /\ pc = "try_db_log"
    /\ pending # <<>>
    /\ \E outcome \in DbOutcomes :
        /\ outcome \in DbFailures => MayFail /\ ~DbSkips
        /\ db' = try_db_log(db, Head(pending).second, outcome)
        /\ calls' = Append(calls, Call("db", Head(pending).second,
                                       IF DbSkips THEN "skipped" ELSE outcome))
        /\ faults' = IF outcome \in DbFailures THEN faults + 1 ELSE faults
        /\ pc' = IF TryDbLogRaises(outcome) /\ ~DbSkips THEN "crashed"
                 ELSE AfterSite(pending, phase)
    /\ pending' = Tail(pending)
    /\ UNCHANGED others
    /\ UNCHANGED <<secrets, trigger, credentials, credState, authenticator, name,
                   display_name, auth_status, user_key, fb_user, fb_pass,
                   loginPath, stSession, overrideText, testText, event, phase,
                   fileLog, ui, warnings, runs, roleQuery>>

\* app.py:456-462 and the controls of app.py:463-530
RoleGate ==
    /\ pc = "gate"
    /\ IF AdminBranch(user_key)
       THEN LET sites == AdminSites(user_key, display_name, name, trigger,
                                    overrideText, testText)
            IN  /\ ui' = ui \cup {"admin_controls"}
                /\ pending' = sites
                /\ phase' = "admin"
                /\ pc' = IF sites = <<>> THEN "done" ELSE "append_jsonl"
       ELSE /\ ui' = ui \cup {"read_only"}
            /\ pending' = <<>>
            /\ phase' = phase
            /\ pc' = "done"
    /\ UNCHANGED others
    /\ UNCHANGED <<secrets, trigger, credentials, credState, authenticator, name,
                   display_name, auth_status, user_key, fb_user, fb_pass,
                   loginPath, stSession, overrideText, testText, event, fileLog,
                   db, calls, warnings, runs, faults, roleQuery>>

Next ==
    \/ NewRun
    \/ LoadSecrets
    \/ BuildCredentials
    \/ CheckRequiredSecrets
    \/ SetupAuthenticator
    \/ Login
    \/ SessionBranch
    \/ InvalidBranch
    \/ AnonymousBranch
    \/ AppendJsonl
    \/ AppendLoginEvent
    \/ TryDbLog
    \/ RoleGate

Spec == Init /\ [][Next]_vars

-----------------------------------------------------------------------------
(* The role helpers asked about any identity.                              *)

Identities == {None, "", "colin", "halley", "alice", "bob", "mallory"}

\* The usernames auth.py:20-28 can find configured.
AuthTables == SUBSET {"colin", "alice"}

\* auth.py:66-74 asked about username `who`, with `table` configured.
AskAuthRole ==
    /\ \E who \in Identities, table \in AuthTables :
        roleQuery' = [module |-> "auth", who |-> who, known |-> who \in table,
                      viewer |-> auth_is_viewer(who), admin |-> is_admin(who)]
    /\ UNCHANGED others
    /\ UNCHANGED <<secrets, pc, trigger, credentials, credState, authenticator,
                   name, display_name, auth_status, user_key, fb_user, fb_pass,
                   loginPath, stSession, overrideText, testText, event, pending,
                   phase, fileLog, db, calls, ui, warnings, runs, faults>>

\* The usernames app.py is configured with.
ConfiguredUsers == {ADMIN_USERNAME, VIEWER_USERNAME} \ {None}

\* app.py:270-271 and the branch of app.py:458-462 asked about `who`.
AskAppRole ==
    /\ \E who \in Identities :
        roleQuery' = [module |-> "app", who |-> who,
                      known |-> who \in ConfiguredUsers,
                      viewer |-> is_viewer(who), admin |-> AdminBranch(who)]
    /\ UNCHANGED others
    /\ UNCHANGED <<secrets, pc, trigger, credentials, credState, authenticator,
                   name, display_name, auth_status, user_key, fb_user, fb_pass,
                   loginPath, stSession, overrideText, testText, event, pending,
                   phase, fileLog, db, calls, ui, warnings, runs, faults>>

NextRoles == AskAuthRole \/ AskAppRole

SpecRoles == Init /\ [][NextRoles]_vars

\* C1: an identity outside the configured Principal table (None included) is
\* answered viewer and never admin, by auth.py and by app.py alike.
C1_UnknownIsViewer ==
    (roleQuery.module # "none" /\ ~roleQuery.known)
        => (roleQuery.viewer /\ ~roleQuery.admin)

-----------------------------------------------------------------------------
(* append_jsonl called with any record a caller can build.                 *)

MaxLoggerCalls == 2

\* Keys of the shapes password, *_pass, *_password among the keys callers use.
SecretShapedKeys ==
    {"password", "db_pass", "admin_password", "viewer_password", "api_pass"}

\* Records of a caller: the fields of an event, and at most one field with a
\* secret-shaped key.
CallerRecords ==
    LET base == {<<"username", "alice">>, <<"action", "login">>}
    IN  {base} \cup {base \cup {<<k, "s3cret">>} : k \in SecretShapedKeys}

\* st.secrets with every required key set and no datastore.
FullSecrets ==
    [admin_username |-> "alice", admin_email |-> "a@x",
     admin_password |-> "p1", viewer_username |-> "bob",
     viewer_email |-> "v@x", viewer_password |-> "p2",
     db_user |-> None, db_pass |-> None, db_name |-> None,
     db_port |-> "5432"]

\* The process configured in full, and nothing logged yet.
InitLogger ==
    /\ Init
    /\ secrets = FullSecrets

\* app.py:182-207 called as append_jsonl(LOG_PATH, record) after app.py:314
\* has bound the global `event` to the login event of user k.
LoggerCall ==
    /\ Len(calls) < MaxLoggerCalls
    /\ \E record \in CallerRecords, k \in {"alice", "bob"},
          outcome \in FileOutcomes, shown \in 0..2 :
        /\ outcome \notin {"open1_failed", "open2_failed"} => shown = 2
        /\ event' = LoginEvent(CredentialsLiteral[k].name, k)
        /\ fileLog' = FileAfter(fileLog, record, event', outcome)
        /\ warnings' = WarningsAfter(warnings, outcome, shown)
        /\ calls' = Append(calls, Call("file", record, outcome))
        /\ pc' = IF AppendJsonlRaises(outcome, event') THEN "crashed" ELSE pc
    /\ UNCHANGED others
    /\ UNCHANGED <<secrets, trigger, credentials, credState, authenticator, name,
                   display_name, auth_status, user_key, fb_user, fb_pass,
                   loginPath, stSession, overrideText, testText, pending, phase,
                   db, ui, runs, faults, roleQuery>>

NextLogger == LoggerCall

SpecLogger == InitLogger /\ [][NextLogger]_vars

-----------------------------------------------------------------------------
(* Claims.                                                                 *)

\* C2: for every entry P of the Principal table, the fallback form's check of
\* (P.username, P.password) succeeds with P's key, display name and role, and
\* the check of P.username with any other password fails with
\* auth_status False and no username key.
C2_PrincipalAuthenticates ==
    (loginPath = "fallback" /\ fb_user \in DOMAIN credentials) =>
        IF fb_pass = credentials[fb_user].password
        THEN /\ auth_status = "True"
             /\ user_key = fb_user
             /\ display_name = credentials[fb_user].name
             /\ is_viewer(user_key) <=> (credentials[fb_user].name = ROLE_LABELS["viewer"])
        ELSE /\ auth_status = "False"
             /\ user_key = None
             /\ display_name = None

\* C2 witness: the admin Principal signed in through the fallback form.
C2_Witness ==
    /\ loginPath = "fallback"
    /\ auth_status = "True"
    /\ user_key = ADMIN_USERNAME
    /\ display_name = "Admin"
    /\ ~is_viewer(user_key)

\* C3: no line of the audit file holds a key of a secret shape (password,
\* *_pass, *_password), whatever keys the caller put in the record.
C3_NoSecretKeyInFile ==
    \A i \in DOMAIN fileLog : Keys(fileLog[i]) \cap SecretShapedKeys = {}

\* A required key is absent from st.secrets.
RequiredKeyAbsent == \E k \in REQUIRED_SECRETS : secrets[k] = None

\* What a run renders once it is past the check of the required keys.
ServedContent ==
    {"widget_form", "fallback_form", "session_info", "logout", "dashboard",
     "admin_controls", "read_only", "Invalid credentials", "Please log in"}

\* C4 as stated: with a required key absent the run stops before
\* `credentials` is built, before the login form and before any content.
C4_StopsBeforeBuilding ==
    RequiredKeyAbsent =>
        /\ credState = "unbound"
        /\ ui \cap ServedContent = {}
        /\ loginPath = "none"

\* C4 amended: with a required key absent the run stops before the login
\* form and before any content, no login is answered and nothing is logged;
\* the only table ever bound is the one build_credentials built.
C4_StopsBeforeLogin ==
    RequiredKeyAbsent =>
        /\ pc \in {"load", "build", "check", "stopped", "crashed"}
        /\ credState \in {"unbound", "build_credentials"}
        /\ ui \cap ServedContent = {}
        /\ loginPath = "none"
        /\ auth_status = None
        /\ fileLog = <<>>

\* C4 witness: stopped on an absent key with a partial table already built.
C4_Witness ==
    /\ RequiredKeyAbsent
    /\ pc = "stopped"
    /\ credState = "build_credentials"
    /\ Cardinality(DOMAIN credentials) = 1
    /\ "secrets_missing" \in ui

\* C5: a failed attempt for an unknown username and a failed attempt for a
\* known username with a wrong password return the same triple, and the run
\* of a failed attempt renders and logs the same whatever was typed.
C5_NoEnumerationSignal ==
    /\ credState = "literal" =>
          \A k \in DOMAIN credentials, u \in TypedUsers \ DOMAIN credentials,
             p \in Passwords, q \in Passwords :
                p # credentials[k].password =>
                    FallbackCheck(credentials, k, p) = FallbackCheck(credentials, u, q)
    /\ (loginPath = "fallback" /\ auth_status # "True") =>
          /\ auth_status = "False"
          /\ user_key = None
          /\ display_name = None
          /\ pc = "done" =>
                /\ ui \ {"widget_form"} = {"fallback_form", "Invalid credentials"}
                /\ calls = <<>>
                /\ warnings = 0

\* C5 witness: a finished run whose sign-in named an unknown username.
C5_Witness ==
    /\ pc = "done"
    /\ loginPath = "fallback"
    /\ auth_status = "False"
    /\ fb_user \notin DOMAIN credentials
    /\ \E k \in DOMAIN credentials : fb_pass = credentials[k].password

IsAdminAction(ev) == Get(ev, "action") \in AdminActions

\* C6: an admin action event is queued, handed to a sink or written to the
\* file only in a run whose identity is authenticated and not a viewer.
C6_AdminEventsNeverFromViewer ==
    /\ \A i \in DOMAIN pending :
          IsAdminAction(pending[i].first) \/ IsAdminAction(pending[i].second)
              => (auth_status = "True" /\ ~is_viewer(user_key))
    /\ \A i \in DOMAIN calls :
          IsAdminAction(calls[i].ev)
              => (auth_status = "True" /\ ~is_viewer(user_key)
                  /\ Get(calls[i].ev, "username") = user_key)
    /\ \A i \in DOMAIN fileLog :
          IsAdminAction(fileLog[i]) => ~is_viewer(Get(fileLog[i], "username"))

\* C6 witness: an admin action of the admin Principal is on file.
C6_Witness ==
    \E i \in DOMAIN fileLog :
        /\ Get(fileLog[i], "action") = "run_ingest"
        /\ Get(fileLog[i], "username") = ADMIN_USERNAME
        /\ ADMIN_USERNAME # VIEWER_USERNAME

FileCallFailed(i) ==
    calls[i].sink = "file" /\ calls[i].outcome \in FileFailures

\* C7: a failure of the file sink (directory creation, open or write) does
\* not end the run: the run goes on to the same end as without the failure.
C7_FileFailureContained ==
    (\E i \in DOMAIN calls : FileCallFailed(i)) =>
        /\ pc # "crashed"
        /\ "dashboard" \in ui
        /\ pc = "done" => ("admin_controls" \in ui \/ "read_only" \in ui)

\* C7 witness: a run that finished although an open of the file raised.
C7_Witness ==
    /\ pc = "done"
    /\ \E i \in DOMAIN calls :
          calls[i].sink = "file" /\ calls[i].outcome = "open1_failed"
    /\ "admin_controls" \in ui

\* C8: the sink calls of a run alternate file, datastore for every event,
\* whatever the outcome of the file write, and the datastore call leaves
\* the file as it is.
C8_BothSinksAttempted ==
    /\ [](/\ \A i \in DOMAIN calls :
                calls[i].sink = IF i % 2 = 1 THEN "file" ELSE "db"
          /\ pc \in {"append_jsonl", "gate", "done", "crashed"}
                => Len(calls) % 2 = 0)
    /\ [][pc = "try_db_log" => fileLog' = fileLog]_vars

\* C8 witness: a file write that failed, followed by a datastore write.
C8_Witness ==
    \E i \in DOMAIN calls :
        /\ FileCallFailed(i)
        /\ i + 1 \in DOMAIN calls
        /\ calls[i + 1].sink = "db"
        /\ calls[i + 1].outcome = "ok"

C10_EveryAttemptLogged ==
    pc = "done" =>
        /\ auth_status = "False" =>
              \E i \in DOMAIN calls : Get(calls[i].ev, "action") = "login_failed"
        /\ auth_status = "True" =>
              \E i \in DOMAIN calls :
                  calls[i].sink = "file" /\ calls[i].ev = LoginEvent(name, user_key)

\* The control whose click stands for each admin action (app.py:464-465,
\* 481, 499-500, 515).
TriggerOf(action) ==
    CASE action = "run_ingest" -> "run_ingest"
      [] action = "override_station" -> "queue_override"
      [] action = "run_backfill" -> "run_backfill"
      [] OTHER -> "record_test"

\* The file calls of the current run that handed over an event of `action`.
ActionCalls(action) ==
    {i \in DOMAIN calls :
        calls[i].sink = "file" /\ Get(calls[i].ev, "action") = action}

\* The current run was caused by a click on the control of `action`; the
\* two controls that take a text act only on a text that is not empty.
Triggered(action) ==
    /\ trigger = TriggerOf(action)
    /\ action = "override_station" => overrideText # ""
    /\ action = "secret_test" => testText # ""

\* C11: a finished run of the admin page whose file writes all succeeded has
\* written one event of an admin action when the run was caused by a click
\* on that action's control, and none when it was not.
C11_OneEventPerTrigger ==
    (/\ pc = "done"
     /\ "admin_controls" \in ui
     /\ \A i \in DOMAIN calls : ~FileCallFailed(i)) =>
        \A a \in AdminActions :
            Cardinality(ActionCalls(a)) = IF Triggered(a) THEN 1 ELSE 0

\* What only an authenticated session is shown (app.py:277-538).
SessionContent ==
    {"session_info", "logout", "dashboard", "admin_controls", "read_only"}

\* C12: once login has answered, a run is either anonymous (no username
\* key, no display name, nothing of the session rendered) or authenticated
\* as an entry of the Principal table with that entry's role, and then on
\* the strength of a signed widget session or of a matching fallback pair;
\* the widget's session changes only by a submitted form or by logout, and
\* logout of an authenticated run leaves it Anonymous.
C12_SessionStateMachine ==
    /\ [](loginPath # "none" =>
            IF auth_status = "True"
            THEN /\ user_key \in DOMAIN credentials
                 /\ is_viewer(user_key) <=>
                        (credentials[user_key].name = ROLE_LABELS["viewer"])
                 /\ \/ /\ loginPath = "widget"
                       /\ \/ stSession = Signed(user_key)
                          \/ trigger = "logout" /\ stSession = Anonymous
                    \/ /\ loginPath = "fallback"
                       /\ fb_user = user_key
                       /\ fb_pass = credentials[user_key].password
            ELSE /\ user_key = None
                 /\ display_name = None
                 /\ ui \cap SessionContent = {})
    /\ [][stSession' # stSession =>
            \/ pc = "setup" /\ trigger = "widget_submit"
            \/ /\ pc = "branch" /\ auth_status = "True" /\ trigger = "logout"
               /\ stSession' = Anonymous]_vars
    /\ [][(pc = "branch" /\ auth_status = "True" /\ trigger = "logout")
            => stSession' = Anonymous]_vars

\* C12 witness: an authenticated run that handled the click on Logout.
C12_Witness ==
    /\ pc = "done"
    /\ trigger = "logout"
    /\ auth_status = "True"
    /\ "dashboard" \in ui
    /\ stSession = Anonymous

\* C13: for every identity asked about (configured, unknown or None),
\* exactly one of is_viewer and is_admin is true, and the role answered is
\* one of admin and viewer.
C13_ViewerComplementOfAdmin ==
    /\ roleQuery.module # "none" => (roleQuery.viewer <=> ~roleQuery.admin)
    /\ roleQuery.module = "auth" =>
          /\ get_user_role(roleQuery.who) \in {"admin", "viewer"}
          /\ roleQuery.viewer <=> (get_user_role(roleQuery.who) = "viewer")
          /\ roleQuery.admin <=> (get_user_role(roleQuery.who) = "admin")

\* C13 witness: auth.py asked about the absent identity.
C13_Witness ==
    /\ roleQuery.module = "auth"
    /\ roleQuery.who = None
    /\ roleQuery.admin
    /\ ~roleQuery.viewer

\* C14: every entry of a Principal table the run has bound has a username,
\* an email and a password that are present and not empty; a Principal
\* with a field missing is not in the table.
C14_IncompletePrincipalExcluded ==
    credState # "unbound" =>
        \A k \in DOMAIN credentials :
            /\ Truthy(k)
            /\ Truthy(credentials[k].email)
            /\ Truthy(credentials[k].password)

\* The calls of append_jsonl so far whose writes all succeeded.
WrittenCalls ==
    {i \in DOMAIN calls :
        calls[i].sink = "file" /\ calls[i].outcome \in {"ok", "mkdir_failed"}}

\* The calls of append_jsonl so far in which an open or a write raised.
FailedWrites ==
    {i \in DOMAIN calls :
        calls[i].sink = "file"
        /\ calls[i].outcome \in {"open1_failed", "open2_failed"}}

\* C15: the audit file holds one line for every call of append_jsonl that
\* succeeded and none for a call that failed: a call adds exactly one line
\* or drops its event.
C15_OneLinePerEvent ==
    Len(fileLog) = Cardinality(WrittenCalls)

\* C17: the sidebar shows at most one warning for every failed write.
C17_OneWarningPerFailure ==
    warnings <= Cardinality(FailedWrites)

-----------------------------------------------------------------------------
(* append_jsonl run by several sessions at once: each session is a thread  *)
(* of the one server process, with its own globals, and all write the one  *)
(* audit file.                                                             *)

NumSessions == 2

\* What a session hands to append_jsonl: the login event at app.py:324, or
\* an admin event (app.py:469) with the login event as the global `event`.
WriterInputs ==
    {[record |-> LoginEvent(CredentialsLiteral[k].name, k),
      event |-> LoginEvent(CredentialsLiteral[k].name, k)] : k \in {"alice", "bob"}}
    \cup {[record |-> AdminEvent("alice", "Admin", "run_ingest", {}),
           event |-> LoginEvent("Admin", "alice")]}

\* Where a line landed: its position in the file and its text.
Landed(pos, line) == [pos |-> pos, line |-> line]

\* A session enters append_jsonl (app.py:182).
WriterEnter ==
    /\ Len(writers) < NumSessions
    /\ \E input \in WriterInputs :
        writers' = Append(writers, [pc |-> "makedirs", record |-> input.record,
                                    event |-> input.event, wrote |-> <<>>,
                                    warned |-> 0])
    /\ UNCHANGED <<tiles, rps, board>>
    /\ UNCHANGED <<secrets, pc, trigger, credentials, credState, authenticator,
                   name, display_name, auth_status, user_key, fb_user, fb_pass,
                   loginPath, stSession, overrideText, testText, event, pending,
                   phase, fileLog, db, calls, ui, warnings, runs, faults,
                   roleQuery>>

\* app.py:184-194: directory creation, whose failure is ignored, the
\* redaction and the line of `event`.
WriterMakedirs ==
    /\ \E s \in DOMAIN writers :
        /\ writers[s].pc = "makedirs"
        /\ writers' = [writers EXCEPT ![s].pc = "open1"]
    /\ \E failed \in BOOLEAN :
        /\ failed => MayFail
        /\ faults' = IF failed THEN faults + 1 ELSE faults
    /\ UNCHANGED <<tiles, rps, board>>
    /\ UNCHANGED <<secrets, pc, trigger, credentials, credState, authenticator,
                   name, display_name, auth_status, user_key, fb_user, fb_pass,
                   loginPath, stSession, overrideText, testText, event, pending,
                   phase, fileLog, db, calls, ui, warnings, runs, roleQuery>>

\* app.py:196, app.py:198: open(..., "a"); a failure goes to the handler.
WriterOpen ==
    /\ \E s \in DOMAIN writers, failed \in BOOLEAN :
        /\ writers[s].pc \in {"open1", "open2"}
        /\ failed => MayFail
        /\ faults' = IF failed THEN faults + 1 ELSE faults
        /\ writers' = [writers EXCEPT ![s].pc =
                          IF failed THEN "except"
                          ELSE IF @ = "open1" THEN "write1" ELSE "write2"]
    /\ UNCHANGED <<tiles, rps, board>>
    /\ UNCHANGED <<secrets, pc, trigger, credentials, credState, authenticator,
                   name, display_name, auth_status, user_key, fb_user, fb_pass,
                   loginPath, stSession, overrideText, testText, event, pending,
                   phase, fileLog, db, calls, ui, warnings, runs, roleQuery>>

\* app.py:197, app.py:199: the write, flushed when the with block closes the
\* file.
WriterWrite ==
    /\ \E s \in DOMAIN writers :
        /\ writers[s].pc \in {"write1", "write2"}
        /\ LET line == IF writers[s].pc = "write1"
                       THEN json_dumps(safe(writers[s].record))
                       ELSE json_dumps(writers[s].event)
           IN  /\ fileLog' = AppendLine(fileLog, line)
               /\ writers' = [writers EXCEPT
                    ![s].pc = IF @ = "write1" THEN "open2" ELSE "returned",
                    ![s].wrote = Append(@, Landed(Len(fileLog'), line))]
    /\ UNCHANGED <<tiles, rps, board>>
    /\ UNCHANGED <<secrets, pc, trigger, credentials, credState, authenticator,
                   name, display_name, auth_status, user_key, fb_user, fb_pass,
                   loginPath, stSession, overrideText, testText, event, pending,
                   phase, db, calls, ui, warnings, runs, faults, roleQuery>>

\* app.py:200-207: the handler's two warnings.
WriterExcept ==
    /\ \E s \in DOMAIN writers :
        /\ writers[s].pc = "except"
        /\ writers' = [writers EXCEPT ![s].pc = "returned", ![s].warned = 2]
    /\ UNCHANGED <<tiles, rps, board>>
    /\ UNCHANGED <<secrets, pc, trigger, credentials, credState, authenticator,
                   name, display_name, auth_status, user_key, fb_user, fb_pass,
                   loginPath, stSession, overrideText, testText, event, pending,
                   phase, fileLog, db, calls, ui, warnings, runs, faults,
                   roleQuery>>

NextAppend ==
    \/ WriterEnter
    \/ WriterMakedirs
    \/ WriterOpen
    \/ WriterWrite
    \/ WriterExcept

SpecAppend == InitLogger /\ [][NextAppend]_vars

\* C16: no step of any session shortens or changes what the audit file
\* holds, and every line a session has written stands where it landed,
\* whatever the other sessions did since.
C16_AppendOnly ==
    /\ [][/\ Len(fileLog') >= Len(fileLog)
          /\ SubSeq(fileLog', 1, Len(fileLog)) = fileLog]_vars
    /\ [](\A s \in DOMAIN writers : \A j \in DOMAIN writers[s].wrote :
            /\ writers[s].wrote[j].pos \in DOMAIN fileLog
            /\ fileLog[writers[s].wrote[j].pos] = writers[s].wrote[j].line)

\* C16 witness: two sessions have returned, and a line of the second landed
\* between the two lines of the first.
C16_Witness ==
    /\ Len(writers) >= 2
    /\ writers[1].pc = "returned"
    /\ writers[2].pc = "returned"
    /\ Len(writers[1].wrote) = 2
    /\ Len(writers[2].wrote) = 2
    /\ writers[1].wrote[1].pos < writers[2].wrote[1].pos
    /\ writers[2].wrote[1].pos < writers[1].wrote[2].pos

-----------------------------------------------------------------------------
(* The datastore sink called again and again.                              *)

\* C18: however often try_db_log has run, the datastore holds at most one
\* table of login events, and every inserted row is in that one table.
C18_OneTableAllRows ==
    /\ Cardinality(db.tables) <= 1
    /\ \A i \in DOMAIN db.rows : db.rows[i].table \in db.tables
    /\ \A i, j \in DOMAIN db.rows : db.rows[i].table = db.rows[j].table

-----------------------------------------------------------------------------
(* The tile manifest, src/tile_manifest.py.                                *)

\* What os.getenv("INTERNAL_MODE") can return; None when it is not set.
EnvValues == {None, "", "0", "1", "true"}

\* tile_manifest.py:6-24
BaseTiles ==
    [left |-> <<"forecast_summary", "forecast_vs_bracket">>,
     mid |-> <<"model_outputs", "model_confidence_heatmap">>,
     right |-> <<"observation_provenance", "model_freshness">>,
     summary |-> <<"pipeline_self_audit", "schema_coverage_audit">>,
     admin |-> <<>>]

\* tile_manifest.py:30-35
AdminTiles ==
    <<"resource_tile", "loader_freshness", "partition_health",
      "forecast_accuracy_extended">>

\* The gate open for any value that is set.
InternalMode_AnySetValue(env) == env # None

\* tile_manifest.py:29
InternalMode(env) == env = "1"

\* tile_manifest.py:6-35: TILES once the module is imported.
TILES(env) ==
    IF InternalMode(env)
    THEN [BaseTiles EXCEPT !.admin = @ \o AdminTiles]
    ELSE BaseTiles

\* The import of tile_manifest, with INTERNAL_MODE as the process has it.
ImportManifest ==
    /\ ~tiles.imported
    /\ \E env \in EnvValues :
        tiles' = [imported |-> TRUE, INTERNAL_MODE |-> env, TILES |-> TILES(env)]
    /\ UNCHANGED <<writers, rps, board>>
    /\ UNCHANGED <<secrets, pc, trigger, credentials, credState, authenticator,
                   name, display_name, auth_status, user_key, fb_user, fb_pass,
                   loginPath, stSession, overrideText, testText, event, pending,
                   phase, fileLog, db, calls, ui, warnings, runs, faults,
                   roleQuery>>

Range(seq) == {seq[i] : i \in DOMAIN seq}

NonAdminGroups == {"left", "mid", "right", "summary"}

\* C19: once the manifest is imported, its admin group holds the admin
\* tiles when INTERNAL_MODE is exactly "1" and is empty otherwise; the other
\* four groups are the ones of the file whatever INTERNAL_MODE is, and none
\* of them holds the name of an admin tile.
C19_AdminTilesGated ==
    tiles.imported =>
        /\ tiles.TILES.admin =
              IF tiles.INTERNAL_MODE = "1" THEN AdminTiles ELSE <<>>
        /\ \A g \in NonAdminGroups :
              /\ tiles.TILES[g] = BaseTiles[g]
              /\ Range(tiles.TILES[g]) \cap Range(AdminTiles) = {}

\* C19 witness: imported with INTERNAL_MODE set to a value other than "1".
C19_Witness ==
    /\ tiles.imported
    /\ tiles.INTERNAL_MODE = "true"
    /\ tiles.TILES.admin = <<>>
    /\ tiles.TILES.left # <<>>

-----------------------------------------------------------------------------
(* The rock-paper-scissors tile, src/tiles/rps_app.py: one browser         *)
(* session, one action per script run.                                     *)

MaxRpsRuns == 3

\* rps_app.py:53
HistoryCap == 50

\* rps_app.py:28
CHOICES == {"Rock", "Paper", "Scissors"}

\* The rule that counts a tie as a loss.
decide_TieLoses(p, c) ==
    LET wins == [Rock |-> "Scissors", Paper |-> "Rock", Scissors |-> "Paper"]
    IN  IF wins[p] = c THEN "Win" ELSE "Lose"

\* rps_app.py:33-41
decide(p, c) ==
    IF p = c THEN "Tie"
    ELSE LET wins == [Rock |-> "Scissors", Paper |-> "Rock", Scissors |-> "Paper"]
         IN  IF wins[p] = c THEN "Win" ELSE "Lose"

\* The slice that keeps everything.
Slice_Whole(seq, n) == seq

\* seq[:n]
Slice(seq, n) == SubSeq(seq, 1, IF Len(seq) < n THEN Len(seq) ELSE n)

\* rps_app.py:51: history.insert(0, ...)
InsertFront(seq, e) == <<e>> \o seq

\* rps_app.py:43-53 record_result(name, result) on session state ss; the
\* entry's time is the clock after this round.
record_result(ss, result) ==
    LET played == [ss.player EXCEPT
                     !.games = @ + 1,
                     !.wins = IF result = "Win" THEN @ + 1 ELSE @,
                     !.losses = IF result = "Lose" THEN @ + 1 ELSE @,
                     !.ties = IF result \notin {"Win", "Lose"} THEN @ + 1 ELSE @]
        entry == [result |-> result, player |-> ss.player.name,
                  time |-> ss.clock + 1]
    IN  [ss EXCEPT !.player = played,
                   !.history = Slice(InsertFront(@, entry), HistoryCap),
                   !.clock = @ + 1]

\* What the Nickname input can hold, and name.strip() or "Guest"
\* (rps_app.py:87-88).
Nicknames == {"", " ann "}
StripOrGuest(typed) == IF typed = " ann " THEN "ann" ELSE "Guest"

\* The session after n rounds of Rock against Rock played as Guest.
TiedSession(n) ==
    IF n = 0 THEN NewSession
    ELSE [player |-> [name |-> "Guest", wins |-> 0, losses |-> 0, ties |-> n,
                      games |-> n],
          last |-> [player_choice |-> "Rock", cpu_choice |-> "Rock",
                    result |-> "Tie"],
          history |-> [i \in 1..n |->
                         [result |-> "Tie", player |-> "Guest",
                          time |-> n + 1 - i]],
          clock |-> n,
          click |-> "Rock",
          runs |-> 0]

\* The sessions the runs are followed from: new, and one round and no round
\* short of a full history.
StartRounds == {0, HistoryCap - 1, HistoryCap}

\* A run caused by an edit of the Nickname input (rps_app.py:87-88).
RpsNickname ==
    /\ rps.runs < MaxRpsRuns
    /\ \E typed \in Nicknames :
        rps' = [rps EXCEPT !.player.name = StripOrGuest(typed),
                           !.click = "nickname",
                           !.runs = @ + 1]
    /\ UNCHANGED <<writers, tiles, board>>
    /\ UNCHANGED <<secrets, pc, trigger, credentials, credState, authenticator,
                   name, display_name, auth_status, user_key, fb_user, fb_pass,
                   loginPath, stSession, overrideText, testText, event, pending,
                   phase, fileLog, db, calls, ui, warnings, runs, faults,
                   roleQuery>>

\* A run caused by "Reset Session Score" (rps_app.py:90-93).
RpsReset ==
    /\ rps.runs < MaxRpsRuns
    /\ rps' = [rps EXCEPT
                 !.player = [@ EXCEPT !.wins = 0, !.losses = 0, !.ties = 0,
                                      !.games = 0],
                 !.history = <<>>,
                 !.click = "reset",
                 !.runs = @ + 1]
    /\ UNCHANGED <<writers, tiles, board>>
    /\ UNCHANGED <<secrets, pc, trigger, credentials, credState, authenticator,
                   name, display_name, auth_status, user_key, fb_user, fb_pass,
                   loginPath, stSession, overrideText, testText, event, pending,
                   phase, fileLog, db, calls, ui, warnings, runs, faults,
                   roleQuery>>

\* A run caused by one of the three move buttons (rps_app.py:100-120).
RpsPlay ==
    /\ rps.runs < MaxRpsRuns
    /\ \E player_choice \in CHOICES, cpu_choice \in CHOICES :
        LET result == decide(player_choice, cpu_choice)
            shown == [rps EXCEPT !.last = [player_choice |-> player_choice,
                                           cpu_choice |-> cpu_choice,
                                           result |-> result]]
        IN  rps' = [record_result(shown, result) EXCEPT
                      !.click = player_choice,
                      !.runs = @ + 1]
    /\ UNCHANGED <<writers, tiles, board>>
    /\ UNCHANGED <<secrets, pc, trigger, credentials, credState, authenticator,
                   name, display_name, auth_status, user_key, fb_user, fb_pass,
                   loginPath, stSession, overrideText, testText, event, pending,
                   phase, fileLog, db, calls, ui, warnings, runs, faults,
                   roleQuery>>

InitTiles ==
    /\ InitDashboard
    /\ secrets = FullSecrets
    /\ writers = NoWriters
    /\ tiles = NotImported
    /\ board = NoBoard
    /\ \E n \in StartRounds : rps = TiedSession(n)

NextTiles ==
    \/ ImportManifest
    \/ RpsNickname
    \/ RpsReset
    \/ RpsPlay

SpecTiles == InitTiles /\ [][NextTiles]_vars

\* C20: the session history never holds more than 50 entries and is ordered
\* most recent first; a round puts its entry at the front and keeps the 49
\* most recent entries behind it, and a reset leaves the history empty.
C20_HistoryBounded ==
    /\ [](/\ Len(rps.history) <= HistoryCap
          /\ \A i \in 1..(Len(rps.history) - 1) :
                rps.history[i].time > rps.history[i + 1].time
          /\ rps.click = "reset" => rps.history = <<>>)
    /\ [][rps'.clock # rps.clock =>
            /\ rps'.history # <<>>
            /\ Head(rps'.history).time = rps'.clock
            /\ Head(rps'.history).result = rps'.last.result
            /\ Tail(rps'.history) =
                  SubSeq(rps.history, 1,
                         IF Len(rps.history) < HistoryCap
                         THEN Len(rps.history) ELSE HistoryCap - 1)]_vars

\* C20 witness: a round played on a full history dropped the oldest entry.
C20_Witness ==
    /\ rps.click \in CHOICES
    /\ rps.clock > HistoryCap
    /\ Len(rps.history) = HistoryCap
    /\ rps.history[HistoryCap].time = rps.clock - HistoryCap + 1

\* The rule of the game: the pairs in which the first choice beats the second.
Beats ==
    {<<"Rock", "Scissors">>, <<"Paper", "Rock">>, <<"Scissors", "Paper">>}

\* 1 when the condition holds, else 0.
OneIf(cond) == IF cond THEN 1 ELSE 0

\* C21: games is the sum of wins, losses and ties and no counter is
\* negative; a round adds one to games and one to the counter of its
\* outcome (ties when the choices are equal, wins when the player's choice
\* beats the CPU's, losses otherwise), and a reset leaves all four at 0.
C21_CountersAddUp ==
    /\ [](/\ rps.player.games =
                rps.player.wins + rps.player.losses + rps.player.ties
          /\ rps.player.games >= 0
          /\ rps.player.wins >= 0
          /\ rps.player.losses >= 0
          /\ rps.player.ties >= 0
          /\ rps.click = "reset" =>
                (rps.player.games = 0 /\ rps.player.wins = 0
                 /\ rps.player.losses = 0 /\ rps.player.ties = 0))
    /\ [][rps'.clock # rps.clock =>
            LET p == rps'.last.player_choice
                c == rps'.last.cpu_choice
            IN  /\ p = rps'.click
                /\ rps'.player.games = rps.player.games + 1
                /\ rps'.player.ties = rps.player.ties + OneIf(p = c)
                /\ rps'.player.wins = rps.player.wins + OneIf(<<p, c>> \in Beats)
                /\ rps'.player.losses =
                      rps.player.losses + OneIf(<<c, p>> \in Beats)]_vars

\* C21 witness: a won round in a session that has also lost and tied.
C21_Witness ==
    /\ rps.click \in CHOICES
    /\ rps.last.result = "Win"
    /\ rps.player.wins >= 1
    /\ rps.player.losses >= 1
    /\ rps.player.ties >= 1

-----------------------------------------------------------------------------
(* The local leaderboard of src/tiles/rps_app.py: one file shared by the   *)
(* sessions that press "Save score locally".                               *)

NumSavers == 2

\* rps_app.py:67
LeaderboardCap == 100

\* rps_app.py:144
ScoreEntry(player, ts) ==
    [name |-> player.name, wins |-> player.wins, losses |-> player.losses,
     ties |-> player.ties, games |-> player.games, ts |-> ts]

\* The scoreboards of the sessions that save.
SaverPlayers ==
    {NewSession.player,
     [name |-> "ann", wins |-> 1, losses |-> 0, ties |-> 0, games |-> 1]}

\* rps_app.py:55-61: the list the file holds; a file that is missing, or
\* empty because a writer has just truncated it, reads as [].
load_local_leaderboard(file) == file

\* rps_app.py:65-67: board.insert(0, score_entry); board = board[:100]
WithEntry(loaded, score_entry) ==
    Slice(InsertFront(loaded, score_entry), LeaderboardCap)

\* The file after n saves of a new Guest session, one after the other.
StoredBoard(n) == [i \in 1..n |-> ScoreEntry(NewSession.player, n + 1 - i)]

\* The files the saves are followed from: none, and one entry and no entry
\* short of the cap.
StartBoards == {0, LeaderboardCap - 1, LeaderboardCap}

\* rps_app.py:143-145: a session presses "Save score locally" and builds its
\* entry.
SaverClick ==
    /\ Len(board.savers) < NumSavers
    /\ \E player \in SaverPlayers :
        board' = [board EXCEPT
            !.ticks = @ + 1,
            !.savers = Append(@, [pc |-> "load",
                                  entry |-> ScoreEntry(player, board.ticks + 1),
                                  local |-> <<>>,
                                  outcome |-> "none"])]
    /\ UNCHANGED <<writers, tiles, rps>>
    /\ UNCHANGED <<secrets, pc, trigger, credentials, credState, authenticator,
                   name, display_name, auth_status, user_key, fb_user, fb_pass,
                   loginPath, stSession, overrideText, testText, event, pending,
                   phase, fileLog, db, calls, ui, warnings, runs, faults,
                   roleQuery>>

\* rps_app.py:64-67: the session reads the file and builds its new list.
SaverLoad ==
    /\ \E s \in DOMAIN board.savers :
        /\ board.savers[s].pc = "load"
        /\ board' = [board EXCEPT
              !.savers[s].local =
                  WithEntry(load_local_leaderboard(board.file),
                            board.savers[s].entry),
              !.savers[s].pc = "open"]
    /\ UNCHANGED <<writers, tiles, rps>>
    /\ UNCHANGED <<secrets, pc, trigger, credentials, credState, authenticator,
                   name, display_name, auth_status, user_key, fb_user, fb_pass,
                   loginPath, stSession, overrideText, testText, event, pending,
                   phase, fileLog, db, calls, ui, warnings, runs, faults,
                   roleQuery>>

\* rps_app.py:68-71: write_text opens the file for writing, which empties
\* it; an open that fails is ignored and the entry is dropped.
SaverOpen ==
    /\ \E s \in DOMAIN board.savers, failed \in BOOLEAN :
        /\ board.savers[s].pc = "open"
        /\ failed => MayFail
        /\ faults' = IF failed THEN faults + 1 ELSE faults
        /\ board' = IF failed
                    THEN [board EXCEPT !.savers[s].pc = "returned",
                                       !.savers[s].outcome = "dropped"]
                    ELSE [board EXCEPT !.savers[s].pc = "write",
                                       !.file = <<>>]
    /\ UNCHANGED <<writers, tiles, rps>>
    /\ UNCHANGED <<secrets, pc, trigger, credentials, credState, authenticator,
                   name, display_name, auth_status, user_key, fb_user, fb_pass,
                   loginPath, stSession, overrideText, testText, event, pending,
                   phase, fileLog, db, calls, ui, warnings, runs, roleQuery>>

\* rps_app.py:69: the session's list becomes the content of the file.
SaverWrite ==
    /\ \E s \in DOMAIN board.savers :
        /\ board.savers[s].pc = "write"
        /\ board' = [board EXCEPT !.file = board.savers[s].local,
                                  !.savers[s].pc = "returned",
                                  !.savers[s].outcome = "saved"]
    /\ UNCHANGED <<writers, tiles, rps>>
    /\ UNCHANGED <<secrets, pc, trigger, credentials, credState, authenticator,
                   name, display_name, auth_status, user_key, fb_user, fb_pass,
                   loginPath, stSession, overrideText, testText, event, pending,
                   phase, fileLog, db, calls, ui, warnings, runs, faults,
                   roleQuery>>

InitBoard ==
    /\ InitDashboard
    /\ secrets = FullSecrets
    /\ writers = NoWriters
    /\ tiles = NotImported
    /\ rps = NewSession
    /\ \E n \in StartBoards :
        board = [file |-> StoredBoard(n), savers |-> <<>>, ticks |-> n]

NextBoard ==
    \/ SaverClick
    \/ SaverLoad
    \/ SaverOpen
    \/ SaverWrite

SpecBoard == InitBoard /\ [][NextBoard]_vars

\* Every session that pressed the button has returned from its save.
AllSaved ==
    /\ board.savers # <<>>
    /\ \A s \in DOMAIN board.savers : board.savers[s].pc = "returned"

\* C22: once every save has returned, the file holds no more than 100
\* entries and the entry of every session whose write went through,
\* whatever the interleaving of the sessions' loads and writes.
C22_NoSavedScoreLost ==
    AllSaved =>
        /\ Len(board.file) <= LeaderboardCap
        /\ \A s \in DOMAIN board.savers :
              board.savers[s].outcome = "saved" =>
                  board.savers[s].entry \in Range(board.file)

====
